---- MODULE Spec2Model ----
(***************************************************************************)
(* Model of the document-processing pipeline of app.py: one run of the     *)
(* "Process Document" handler, from the uploaded file to the presented     *)
(* result or to one of the st.stop() exits.                                *)
(*                                                                         *)
(* Text is a sequence of characters.  A character is a one-character       *)
(* string; the lexemes of a JSON text (a quoted string, a number, a        *)
(* literal word) and a word of prose are kept as one element each, and the *)
(* fixed instruction text of the prompt template is one element.           *)
(***************************************************************************)
EXTENDS Integers, Sequences, FiniteSets, TLC

\* ---------------------------------------------------------------- bounds
MaxPages == 3
MaxDim == 2

\* ------------------------------------------------------------ characters
Whitespace == {" ", "\n", "\t"}

\* ----------------------------------------------------------- JSON values
\* Every value has the same three fields.  The members of an object are
\* <<key, value>> pairs in insertion order; the elements of an array are
\* <<"", value>> pairs.
JStr(s) == [kind |-> "str", s |-> s, fields |-> <<>>]

JNum(s) == [kind |-> "num", s |-> s, fields |-> <<>>]

JNull == [kind |-> "null", s |-> "", fields |-> <<>>]

JTrue == [kind |-> "bool", s |-> "true", fields |-> <<>>]

JFalse == [kind |-> "bool", s |-> "false", fields |-> <<>>]

JObj(pairs) == [kind |-> "obj", s |-> "", fields |-> pairs]

JArr(items) == [kind |-> "arr", s |-> "", fields |-> [i \in 1..Len(items) |-> <<"", items[i]>>]]

\* the value of a name that is not bound
NoValue == [kind |-> "none", s |-> "", fields |-> <<>>]

\* dict[key] = value of a Python dict: a key already present keeps its place
DictSet(pairs, key, value) ==
    IF \E i \in 1..Len(pairs) : pairs[i][1] = key
    THEN [i \in 1..Len(pairs) |-> IF pairs[i][1] = key THEN <<key, value>> ELSE pairs[i]]
    ELSE Append(pairs, <<key, value>>)

DictKeys(v) == {v.fields[i][1] : i \in 1..Len(v.fields)}

DictGetSharedDefault(v, key, default) ==
    IF key \in DictKeys(v)
    THEN (CHOOSE p \in {v.fields[i] : i \in 1..Len(v.fields)} : p[1] = key)[2]
    ELSE JStr("Unknown")

\* dict.get(key, default)
DictGet(v, key, default) ==
    IF key \in DictKeys(v)
    THEN (CHOOSE p \in {v.fields[i] : i \in 1..Len(v.fields)} : p[1] = key)[2]
    ELSE default

\* ---------------------------------------------------------- JSON lexemes
StringAtoms ==
    {"summary", "domain", "origin", "document_type", "erp_status", "transformed_data",
     "key_points", "entities", "confidence", "total", "format", "mode", "width", "height",
     "Image", "PNG", "JPEG", "RGB", "L",
     "Invoice for $100", "Finance", "US", "Invoice", "READY", "NOT_READY", "MAYBE",
     "Invoice #42", "100", "Unknown", "No summary available"}

Quote(s) == "\"" \o s \o "\""

StringLits == {Quote(s) : s \in StringAtoms}

Unquote(tok) == CHOOSE s \in StringAtoms : Quote(s) = tok

NumberLits == {ToString(n) : n \in 0..(MaxDim + 1)} \cup {"0.92", "42"}

\* -------------------------------------------------- json.dumps(v, indent=2)
Spaces(n) == [i \in 1..n |-> " "]

RECURSIVE Dumps(_, _)
RECURSIVE DumpMembers(_, _, _, _)

DumpMembers(v, i, level, isObj) ==
    IF i > Len(v.fields) THEN <<>>
    ELSE <<"\n">> \o Spaces(2 * (level + 1))
         \o (IF isObj THEN <<Quote(v.fields[i][1]), ":", " ">> ELSE <<>>)
         \o Dumps(v.fields[i][2], level + 1)
         \o (IF i < Len(v.fields) THEN <<",">> ELSE <<>>)
         \o DumpMembers(v, i + 1, level, isObj)

Dumps(v, level) ==
    CASE v.kind = "str" -> <<Quote(v.s)>>
      [] v.kind = "num" -> <<v.s>>
      [] v.kind = "bool" -> <<v.s>>
      [] v.kind = "null" -> <<"null">>
      [] v.kind = "obj" ->
            IF v.fields = <<>> THEN <<"{", "}">>
            ELSE <<"{">> \o DumpMembers(v, 1, level, TRUE) \o <<"\n">> \o Spaces(2 * level) \o <<"}">>
      [] v.kind = "arr" ->
            IF v.fields = <<>> THEN <<"[", "]">>
            ELSE <<"[">> \o DumpMembers(v, 1, level, FALSE) \o <<"\n">> \o Spaces(2 * level) \o <<"]">>

json_dumps(v) == Dumps(v, 0)

\* ------------------------------------------------------- json.loads(text)
ParseFail == [ok |-> FALSE, val |-> NoValue, next |-> 0]

ParseOk(v, n) == [ok |-> TRUE, val |-> v, next |-> n]

RECURSIVE SkipWs(_, _)
SkipWs(t, i) == IF i <= Len(t) /\ t[i] \in Whitespace THEN SkipWs(t, i + 1) ELSE i

RECURSIVE ParseValue(_, _)
RECURSIVE ParseMembers(_, _, _)
RECURSIVE ParseElements(_, _, _)

\* after "{" or ",": a key, a colon, a value, then "," or "}"
ParseMembers(t, i0, acc) ==
    LET i == SkipWs(t, i0) IN
    IF i > Len(t) \/ t[i] \notin StringLits THEN ParseFail
    ELSE LET c == SkipWs(t, i + 1) IN
         IF c > Len(t) \/ t[c] # ":" THEN ParseFail
         ELSE LET r == ParseValue(t, c + 1) IN
              IF ~r.ok THEN ParseFail
              ELSE LET e == SkipWs(t, r.next)
                       acc2 == DictSet(acc, Unquote(t[i]), r.val)
                   IN IF e > Len(t) THEN ParseFail
                      ELSE IF t[e] = "," THEN ParseMembers(t, e + 1, acc2)
                      ELSE IF t[e] = "}" THEN ParseOk(JObj(acc2), e + 1)
                      ELSE ParseFail

\* after "[" or ",": a value, then "," or "]"
ParseElements(t, i0, acc) ==
    LET r == ParseValue(t, i0) IN
    IF ~r.ok THEN ParseFail
    ELSE LET e == SkipWs(t, r.next)
             acc2 == Append(acc, r.val)
         IN IF e > Len(t) THEN ParseFail
            ELSE IF t[e] = "," THEN ParseElements(t, e + 1, acc2)
            ELSE IF t[e] = "]" THEN ParseOk(JArr(acc2), e + 1)
            ELSE ParseFail

ParseValue(t, i0) ==
    LET i == SkipWs(t, i0) IN
    IF i > Len(t) THEN ParseFail
    ELSE IF t[i] \in StringLits THEN ParseOk(JStr(Unquote(t[i])), i + 1)
    ELSE IF t[i] \in NumberLits THEN ParseOk(JNum(t[i]), i + 1)
    ELSE IF t[i] = "null" THEN ParseOk(JNull, i + 1)
    ELSE IF t[i] = "true" THEN ParseOk(JTrue, i + 1)
    ELSE IF t[i] = "false" THEN ParseOk(JFalse, i + 1)
    ELSE IF t[i] = "{" THEN
        LET j == SkipWs(t, i + 1) IN
        IF j <= Len(t) /\ t[j] = "}" THEN ParseOk(JObj(<<>>), j + 1)
        ELSE ParseMembers(t, i + 1, <<>>)
    ELSE IF t[i] = "[" THEN
        LET j == SkipWs(t, i + 1) IN
        IF j <= Len(t) /\ t[j] = "]" THEN ParseOk(JArr(<<>>), j + 1)
        ELSE ParseElements(t, i + 1, <<>>)
    ELSE ParseFail

json_loads_prefix(t) ==
    LET r == ParseValue(t, 1) IN
    IF r.ok THEN [ok |-> TRUE, val |-> r.val]
    ELSE [ok |-> FALSE, val |-> NoValue]

\* a value, then nothing but whitespace up to the end of the text
json_loads(t) ==
    LET r == ParseValue(t, 1) IN
    IF r.ok /\ SkipWs(t, r.next) > Len(t) THEN [ok |-> TRUE, val |-> r.val]
    ELSE [ok |-> FALSE, val |-> NoValue]

\* ------------------------------------------------------------ str.strip()
RECURSIVE lstrip(_)
lstrip(t) == IF t # <<>> /\ Head(t) \in Whitespace THEN lstrip(Tail(t)) ELSE t

RECURSIVE rstrip(_)
rstrip(t) == IF t # <<>> /\ t[Len(t)] \in Whitespace THEN rstrip(SubSeq(t, 1, Len(t) - 1)) ELSE t

strip(t) == lstrip(rstrip(t))

\* ------------------------------------------------------ uploaded documents
\* A page is what page.extract_text() gives for it: None, or a string.
NonePage == [none |-> TRUE, text |-> <<>>]

TextPage(t) == [none |-> FALSE, text |-> t]

\* the texts a page is tried with: empty, whitespace only, a word, a padded word
PageTexts == {<<>>, <<" ">>, <<"a">>, <<" ", "a", " ">>}

Pages == {NonePage} \cup {TextPage(t) : t \in PageTexts}

RECURSIVE PageSeqsUpTo(_)
PageSeqsUpTo(n) ==
    IF n = 0 THEN {<<>>}
    ELSE PageSeqsUpTo(n - 1) \cup {Append(ps, p) : ps \in {q \in PageSeqsUpTo(n - 1) : Len(q) = n - 1}, p \in Pages}

NoImage == [format |-> "", mode |-> "", width |-> 0, height |-> 0, pixels |-> ""]

Images ==
    {[format |-> fm[1], mode |-> fm[2], width |-> w, height |-> h, pixels |-> px] :
        fm \in {<<"PNG", "RGB">>, <<"JPEG", "L">>}, w \in 1..MaxDim, h \in 1..MaxDim,
        px \in {"white", "black"}}

MediaPdf == <<"application", "pdf">>

MediaOfFormat(fmt) == IF fmt = "PNG" THEN <<"image", "png">> ELSE <<"image", "jpeg">>

\* declared types st.file_uploader can hand over that are neither PDF nor image/*
OtherMedia == {<<"application", "x-pdf">>, <<"application", "octet-stream">>, <<"imagex", "png">>}

NoFile == [kind |-> "none", type |-> <<"", "">>, pages |-> <<>>, image |-> NoImage]

PdfFiles == {[kind |-> "pdf", type |-> MediaPdf, pages |-> ps, image |-> NoImage] : ps \in PageSeqsUpTo(MaxPages)}

ImageFiles == {[kind |-> "image", type |-> MediaOfFormat(im.format), pages |-> <<>>, image |-> im] : im \in Images}

OtherFiles ==
    {[kind |-> "pdf", type |-> m, pages |-> <<TextPage(<<"a">>)>>, image |-> NoImage] : m \in OtherMedia}
    \cup {[kind |-> "image", type |-> <<"application", "octet-stream">>, pages |-> <<>>,
           image |-> [format |-> "PNG", mode |-> "RGB", width |-> 1, height |-> 1, pixels |-> "white"]]}

Files == PdfFiles \cup ImageFiles \cup OtherFiles

\* --------------------------------------------------------- pure functions
\* uploaded_file.type == "application/pdf"
IsPdfType(type) == type = MediaPdf

IsImageTypeAnyOther(type) == type # MediaPdf

\* uploaded_file.type.startswith("image/")
IsImageType(type) == type[1] = "image"

\* if page_text:
PageYieldsText(page) == ~page.none /\ page.text # <<>>

RECURSIVE PdfLoop(_, _, _)
PdfLoop(pages, i, text) ==
    IF i > Len(pages) THEN text
    ELSE PdfLoop(pages, i + 1,
                 IF PageYieldsText(pages[i]) THEN text \o pages[i].text \o <<"\n">> ELSE text)

extract_text_from_pdf_rstrip(pages) == rstrip(PdfLoop(pages, 1, <<>>))

extract_text_from_pdf(pages) == strip(PdfLoop(pages, 1, <<>>))

process_image_swapped(image) ==
    JObj(<< <<"document_type", JStr("Image")>>,
            <<"format", JStr(image.format)>>,
            <<"mode", JStr(image.mode)>>,
            <<"width", JNum(ToString(image.height))>>,
            <<"height", JNum(ToString(image.width))>> >>)

process_image(image) ==
    JObj(<< <<"document_type", JStr("Image")>>,
            <<"format", JStr(image.format)>>,
            <<"mode", JStr(image.mode)>>,
            <<"width", JNum(ToString(image.width))>>,
            <<"height", JNum(ToString(image.height))>> >>)

PromptHead == "instructions, output schema, <Input_Text>\n"

PromptTail == "\n</Input_Text>\n"

build_prompt(document_text) == <<PromptHead>> \o document_text \o <<PromptTail>>

MODEL_ID == "apac.anthropic.claude-3-5-sonnet-20241022-v2:0"

ConverseRequest(model_id, user_message) ==
    [modelId |-> model_id,
     messages |-> << [role |-> "user", content |-> << [text |-> user_message] >>] >>,
     inferenceConfig |-> [maxTokens |-> 8192, temperature |-> "0.5", topP |-> "0.9"]]

IsReadyUnlessNotReady(status) == status # JStr("NOT_READY")

\* if erp_status == "READY":
IsReady(status) == status = JStr("READY")

\* if not extracted_text:
IsFalsyNever(text) == FALSE

IsFalsy(text) == text = <<>>

\* ------------------------------------------- replies of the inference endpoint
SixKeys == <<"summary", "domain", "origin", "document_type", "erp_status", "transformed_data">>

SixKeySet == {SixKeys[i] : i \in 1..Len(SixKeys)}

TransformedExample ==
    JObj(<< <<"key_points", JArr(<<JStr("Invoice #42")>>)>>,
            <<"entities", JObj(<< <<"total", JStr("100")>> >>)>>,
            <<"confidence", JNum("0.92")>> >>)

\* the values a reply may hold under each key
ReplyValues(k) ==
    CASE k = "summary" -> <<JStr("Invoice for $100")>>
      [] k = "domain" -> <<JStr("Finance")>>
      [] k = "origin" -> <<JStr("US")>>
      [] k = "document_type" -> <<JStr("Invoice")>>
      [] k = "erp_status" -> <<JStr("READY"), JStr("NOT_READY"), JStr("MAYBE"), JNull>>
      [] k = "transformed_data" -> <<TransformedExample>>

\* c[k] = 0: the key is absent; c[k] = n: the key holds the n-th value
\* every subset of the six keys with the first value of each, and every
\* value of a key in the full object and alone
ReplyChoices ==
    [SixKeySet -> {0, 1}]
    \cup {[k \in SixKeySet |-> IF k = k0 THEN n ELSE m] :
            k0 \in {"erp_status"}, n \in 1..Len(ReplyValues("erp_status")), m \in {0, 1}}

ReplyObject(c) ==
    LET present == SelectSeq(SixKeys, LAMBDA k : c[k] > 0)
    IN JObj([i \in 1..Len(present) |-> <<present[i], ReplyValues(present[i])[c[present[i]]]>>])

ReplyObjects == {ReplyObject(c) : c \in ReplyChoices}

NonObjects == {JArr(<<>>), JArr(<<JStr("Invoice")>>), JStr("Invoice"), JNum("42"), JTrue, JNull}

Minified(t) == SelectSeq(t, LAMBDA ch : ch \notin Whitespace)

FullReply == ReplyObject([k \in SixKeySet |-> 1])

\* [src, text]: the JSON value the model meant, if any, and the text it sent
JsonReplies ==
    {[src |-> v, text |-> Minified(json_dumps(v))] : v \in ReplyObjects \cup NonObjects}
    \cup {[src |-> v, text |-> json_dumps(v)] : v \in {FullReply, JObj(<<>>)}}

ProseReplies ==
    {[src |-> NoValue, text |-> t] :
        t \in {<<>>,
               <<"Sorry">>,
               <<"Here", " ", "is", ":", " ">> \o Minified(json_dumps(FullReply)),
               Minified(json_dumps(FullReply)) \o <<" ", "Done">>,
               <<"{", Quote("domain"), ":", Quote("Finance"), ",", "}">>,
               <<"{", Quote("domain"), ":", Quote("Finance")>>}}

Replies == JsonReplies \cup ProseReplies

\* what brt.converse does with the request: raise, or return a response object
RaisedKinds == {"ClientError", "EndpointConnectionError", "NoCredentialsError"}

BadShapes == {"no_output", "no_message", "empty_content", "no_text"}

NoResponse == [raises |-> "", shape |-> "", src |-> NoValue, text |-> <<>>]

Behaviours ==
    {[raises |-> k, shape |-> "", src |-> NoValue, text |-> <<>>] : k \in RaisedKinds}
    \cup {[raises |-> "", shape |-> sh, src |-> NoValue, text |-> <<>>] : sh \in BadShapes}
    \cup {[raises |-> "", shape |-> "ok", src |-> r.src, text |-> r.text] : r \in Replies}

\* ------------------------------------------------------------- exceptions
NoExc == [type |-> "", msg |-> "", cause |-> ""]

\* response["output"]["message"]["content"][0]["text"]
LookupError(shape) == IF shape = "empty_content" THEN "IndexError" ELSE "KeyError"

\* the exception raised inside the try block of converse, "" when there is none
RaisedInConverse(b) ==
    IF b.raises # "" THEN b.raises
    ELSE IF b.shape # "ok" THEN LookupError(b.shape)
    ELSE ""

CaughtOnlyClientError(kind) == kind = "ClientError"

\* except (ClientError, Exception) as e:
Caught(kind) == TRUE

\* what converse raises for an exception of its try block
ConverseRaises(kind) ==
    IF Caught(kind)
    THEN [type |-> "RuntimeError", msg |-> "Bedrock invocation failed", cause |-> kind]
    ELSE [type |-> kind, msg |-> "", cause |-> ""]

\* ------------------------------------------------------------------ state
VARIABLES
    uploaded_file,   \* the file held by st.file_uploader, NoFile when there is none
    pc,              \* position of the script in the current run
    called,          \* the functions of app.py called in the current run
    extracted_text,
    prompt,
    requests,        \* the requests handed to brt.converse in the current run
    response,        \* what brt.converse did with the request
    llm_response,    \* [bound, text]: bound is "llm_response" in locals()
    parsed,          \* NoValue while the name is not bound
    exc,             \* the exception caught at line 154
    erp_status,
    ui,              \* what the run has put on the page
    outcome          \* how the run ended, "" while it has not

vars == <<uploaded_file, pc, called, extracted_text, prompt, requests, response,
          llm_response, parsed, exc, erp_status, ui, outcome>>

Unbound == [bound |-> FALSE, text |-> <<>>]

UiBlank ==
    [error |-> "", exc |-> NoExc, raw_shown |-> FALSE, raw |-> <<>>,
     steps |-> {}, domain |-> NoValue, origin |-> NoValue, document_type |-> NoValue,
     summary |-> NoValue, erp_path |-> "", extracted |-> <<>>,
     transformed_data |-> NoValue, download |-> <<>>]

\* a rerun of the script starts from a fresh module namespace and an empty page
FreshRun ==
    /\ called' = {}
    /\ extracted_text' = <<>>
    /\ prompt' = <<>>
    /\ requests' = <<>>
    /\ response' = NoResponse
    /\ llm_response' = Unbound
    /\ parsed' = NoValue
    /\ exc' = NoExc
    /\ erp_status' = NoValue
    /\ ui' = UiBlank
    /\ outcome' = ""

Init ==
    /\ uploaded_file = NoFile
    /\ pc = "idle"
    /\ called = {}
    /\ extracted_text = <<>>
    /\ prompt = <<>>
    /\ requests = <<>>
    /\ response = NoResponse
    /\ llm_response = Unbound
    /\ parsed = NoValue
    /\ exc = NoExc
    /\ erp_status = NoValue
    /\ ui = UiBlank
    /\ outcome = ""

StopRetrying == "invoke"

\* st.stop(): the run ends here
st_stop == "done"

\* ---------------------------------------------------------------- actions
\* the user puts a file into the empty uploader; the script reruns without a click
Upload(f) ==
    /\ pc \in {"idle", "done"}
    /\ uploaded_file = NoFile
    /\ uploaded_file' = f
    /\ pc' = "idle"
    /\ FreshRun

\* the user removes the file from the uploader; the script reruns and draws
\* the empty page (replacing a file is RemoveFile followed by Upload)
RemoveFile ==
    /\ pc \in {"idle", "done"}
    /\ uploaded_file # NoFile
    /\ uploaded_file' = NoFile
    /\ pc' = "idle"
    /\ FreshRun

\* "Process Document" is clicked: lines 123-131
Click ==
    /\ pc \in {"idle", "done"}
    /\ uploaded_file # NoFile
    /\ pc' = "dispatch"
    /\ FreshRun
    /\ UNCHANGED uploaded_file

\* lines 133-134
DispatchPdf ==
    /\ pc = "dispatch"
    /\ IsPdfType(uploaded_file.type)
    /\ called' = called \cup {"extract_text_from_pdf"}
    /\ extracted_text' = extract_text_from_pdf(uploaded_file.pages)
    /\ pc' = "check"
    /\ UNCHANGED <<uploaded_file, prompt, requests, response, llm_response, parsed, exc,
                   erp_status, ui, outcome>>

\* lines 136-138
DispatchImage ==
    /\ pc = "dispatch"
    /\ ~IsPdfType(uploaded_file.type)
    /\ IsImageType(uploaded_file.type)
    /\ called' = called \cup {"process_image"}
    /\ extracted_text' = json_dumps(process_image(uploaded_file.image))
    /\ pc' = "check"
    /\ UNCHANGED <<uploaded_file, prompt, requests, response, llm_response, parsed, exc,
                   erp_status, ui, outcome>>

\* lines 140-142
DispatchUnsupported ==
    /\ pc = "dispatch"
    /\ ~IsPdfType(uploaded_file.type)
    /\ ~IsImageType(uploaded_file.type)
    /\ ui' = [ui EXCEPT !.error = "Unsupported file type"]
    /\ outcome' = "UnsupportedMediaType"
    /\ pc' = st_stop
    /\ UNCHANGED <<uploaded_file, called, extracted_text, prompt, requests, response,
                   llm_response, parsed, exc, erp_status>>

\* lines 144-146
EmptyExtraction ==
    /\ pc = "check"
    /\ IsFalsy(extracted_text)
    /\ ui' = [ui EXCEPT !.error = "No content extracted"]
    /\ outcome' = "EmptyExtraction"
    /\ pc' = st_stop
    /\ UNCHANGED <<uploaded_file, called, extracted_text, prompt, requests, response,
                   llm_response, parsed, exc, erp_status>>

\* lines 144, 148
BuildPrompt ==
    /\ pc = "check"
    /\ ~IsFalsy(extracted_text)
    /\ called' = called \cup {"build_prompt"}
    /\ prompt' = build_prompt(extracted_text)
    /\ pc' = "invoke"
    /\ UNCHANGED <<uploaded_file, extracted_text, requests, response, llm_response, parsed,
                   exc, erp_status, ui, outcome>>

\* lines 150-153: converse returns the reply text and json.loads its value
TryReturns(b) ==
    /\ pc = "invoke"
    /\ RaisedInConverse(b) = ""
    /\ json_loads(b.text).ok
    /\ called' = called \cup {"get_bedrock_client", "converse"}
    /\ requests' = Append(requests, ConverseRequest(MODEL_ID, prompt))
    /\ response' = b
    /\ llm_response' = [bound |-> TRUE, text |-> b.text]
    /\ parsed' = json_loads(b.text).val
    /\ pc' = "present"
    /\ UNCHANGED <<uploaded_file, extracted_text, prompt, exc, erp_status, ui, outcome>>

\* lines 150-152, converse raises; lines 154-158
ConverseFails(b) ==
    /\ pc = "invoke"
    /\ RaisedInConverse(b) # ""
    /\ called' = called \cup {"get_bedrock_client", "converse"}
    /\ requests' = Append(requests, ConverseRequest(MODEL_ID, prompt))
    /\ response' = b
    /\ exc' = ConverseRaises(RaisedInConverse(b))
    /\ ui' = [ui EXCEPT !.error = "Failed to process document",
                        !.exc = exc',
                        !.raw_shown = TRUE,
                        !.raw = IF llm_response.bound THEN llm_response.text ELSE <<>>]
    /\ outcome' = "InvocationFailure"
    /\ pc' = st_stop
    /\ UNCHANGED <<uploaded_file, extracted_text, prompt, llm_response, parsed, erp_status>>

\* lines 150-153, converse returns the reply text and json.loads raises;
\* lines 154-158
ParseFails(b) ==
    /\ pc = "invoke"
    /\ RaisedInConverse(b) = ""
    /\ ~json_loads(b.text).ok
    /\ called' = called \cup {"get_bedrock_client", "converse"}
    /\ requests' = Append(requests, ConverseRequest(MODEL_ID, prompt))
    /\ response' = b
    /\ llm_response' = [bound |-> TRUE, text |-> b.text]
    /\ exc' = [type |-> "JSONDecodeError", msg |-> "", cause |-> ""]
    /\ ui' = [ui EXCEPT !.error = "Failed to process document",
                        !.exc = exc',
                        !.raw_shown = TRUE,
                        !.raw = IF llm_response'.bound THEN llm_response'.text ELSE <<>>]
    /\ outcome' = "MalformedResponse"
    /\ pc' = st_stop
    /\ UNCHANGED <<uploaded_file, extracted_text, prompt, parsed, erp_status>>

\* lines 163-219, parsed is a dict
Present ==
    /\ pc = "present"
    /\ parsed.kind = "obj"
    /\ erp_status' = DictGet(parsed, "erp_status", JStr("NOT_READY"))
    /\ ui' = [ui EXCEPT
                !.steps = {"summary", "erp", "details"},
                !.domain = DictGet(parsed, "domain", JStr("Unknown")),
                !.origin = DictGet(parsed, "origin", JStr("Unknown")),
                !.document_type = DictGet(parsed, "document_type", JStr("Unknown")),
                !.summary = DictGet(parsed, "summary", JStr("No summary available")),
                !.erp_path = IF IsReady(erp_status') THEN "ready" ELSE "review",
                !.extracted = extracted_text,
                !.transformed_data = DictGet(parsed, "transformed_data", JObj(<<>>)),
                !.download = json_dumps(DictGet(parsed, "transformed_data", JObj(<<>>)))]
    /\ outcome' = "Presented"
    /\ pc' = "done"
    /\ UNCHANGED <<uploaded_file, called, extracted_text, prompt, requests, response,
                   llm_response, parsed, exc>>

\* lines 163-168, parsed is a list, a string, a number, a boolean or None:
\* parsed.get raises AttributeError, which nothing catches
PresentRaises ==
    /\ pc = "present"
    /\ parsed.kind # "obj"
    /\ exc' = [type |-> "AttributeError", msg |-> "", cause |-> ""]
    /\ outcome' = "UnhandledException"
    /\ pc' = "done"
    /\ UNCHANGED <<uploaded_file, called, extracted_text, prompt, requests, response,
                   llm_response, parsed, erp_status, ui>>

Next ==
    \/ \E f \in Files : Upload(f)
    \/ RemoveFile
    \/ Click
    \/ DispatchPdf
    \/ DispatchImage
    \/ DispatchUnsupported
    \/ EmptyExtraction
    \/ BuildPrompt
    \/ \E b \in Behaviours : TryReturns(b)
    \/ \E b \in Behaviours : ConverseFails(b)
    \/ \E b \in Behaviours : ParseFails(b)
    \/ Present
    \/ PresentRaises

Spec == Init /\ [][Next]_vars

\* ===================================================================
\* Properties
\* ===================================================================
InRun == pc \notin {"idle", "dispatch"}

DeclaredPdf == uploaded_file.type = <<"application", "pdf">>

DeclaredImage == uploaded_file.type[1] = "image"

SentText(i) == requests[i].messages[1].content[1].text

\* the value an object of the endpoint holds under a key it has
SrcValue(o, k) == o.fields[CHOOSE i \in 1..Len(o.fields) : o.fields[i][1] = k][2]

NothingPresented ==
    /\ ui.steps = {}
    /\ ui.erp_path = ""
    /\ erp_status = NoValue
    /\ ui.domain = NoValue /\ ui.origin = NoValue /\ ui.document_type = NoValue
    /\ ui.summary = NoValue /\ ui.transformed_data = NoValue /\ ui.download = <<>>

C2_UnsupportedStopsFirst ==
    (uploaded_file # NoFile /\ ~DeclaredPdf /\ ~DeclaredImage /\ InRun) =>
        /\ pc = "done"
        /\ outcome = "UnsupportedMediaType"
        /\ ui.error = "Unsupported file type"
        /\ called = {}
        /\ extracted_text = <<>> /\ prompt = <<>> /\ requests = <<>>
        /\ NothingPresented

C2_Witness == pc = "done" /\ outcome = "UnsupportedMediaType" /\ uploaded_file.type = <<"imagex", "png">>

\* C3: a supported file whose extraction is the empty string (every page of
\* the PDF yields nothing or only whitespace) ends the run with "No content
\* extracted": build_prompt is not called, no request is sent, nothing is
\* presented; and every prompt sent embeds a non-empty extracted text.
C3_EmptyExtractionStops ==
    /\ (DeclaredPdf /\ InRun
        /\ \A i \in 1..Len(uploaded_file.pages) :
              \A j \in 1..Len(uploaded_file.pages[i].text) :
                  uploaded_file.pages[i].text[j] \in {" ", "\n", "\t"})
          => extracted_text = <<>>
    /\ ((DeclaredPdf \/ DeclaredImage) /\ InRun /\ pc # "check" /\ extracted_text = <<>>) =>
          /\ pc = "done"
          /\ outcome = "EmptyExtraction"
          /\ ui.error = "No content extracted"
          /\ "build_prompt" \notin called
          /\ prompt = <<>> /\ requests = <<>>
          /\ NothingPresented
    /\ "build_prompt" \in called => extracted_text # <<>>
    /\ \A i \in 1..Len(requests) :
          /\ SentText(i) = <<PromptHead>> \o extracted_text \o <<PromptTail>>
          /\ Len(SentText(i)) > 2

C3_Witness ==
    /\ pc = "done" /\ outcome = "EmptyExtraction"
    /\ Len(uploaded_file.pages) >= 1
    /\ uploaded_file.pages[1] = TextPage(<<" ">>)

\* C4: when brt.converse raises, or returns an object without the
\* output/message/content[0]/text path, converse raises RuntimeError
\* "Bedrock invocation failed" carrying the original exception; the run ends
\* with the error shown, an empty raw-reply text and nothing presented.
C4_InvocationFailureUniform ==
    (response.raises # "" \/ response.shape \in {"no_output", "no_message", "empty_content", "no_text"}) =>
        /\ pc = "done"
        /\ outcome = "InvocationFailure"
        /\ exc.type = "RuntimeError"
        /\ exc.msg = "Bedrock invocation failed"
        /\ exc.cause = (IF response.raises # "" THEN response.raises
                        ELSE IF response.shape = "empty_content" THEN "IndexError" ELSE "KeyError")
        /\ ui.error = "Failed to process document"
        /\ ui.exc = exc
        /\ ui.raw_shown /\ ui.raw = <<>>
        /\ ~llm_response.bound /\ parsed = NoValue
        /\ NothingPresented

C4_Witness == pc = "done" /\ outcome = "InvocationFailure" /\ response.shape = "no_text"
                 /\ exc.cause = "KeyError"

\* C5: a reply text that is not a JSON document ends the run with the error
\* shown and the reply text displayed exactly as the endpoint returned it;
\* nothing is parsed out of it and no presentation step runs.
C5_MalformedShowsRaw ==
    /\ (response.shape = "ok" /\ response.src = NoValue) => pc = "done"
    /\ (response.shape = "ok" /\ response.src = NoValue /\ pc = "done") =>
          /\ outcome = "MalformedResponse"
          /\ ui.error = "Failed to process document"
          /\ ui.exc.type = "JSONDecodeError"
          /\ ui.raw_shown /\ ui.raw = response.text
          /\ parsed = NoValue
          /\ NothingPresented
    /\ outcome = "MalformedResponse" => response.shape = "ok" /\ response.src = NoValue

C5_Witness ==
    /\ pc = "done" /\ outcome = "MalformedResponse"
    /\ Len(ui.raw) > 6 /\ ui.raw[Len(ui.raw)] = "Done" /\ ui.raw[1] = "{"

\* the value line 168-211 shows for a key, and the default it falls back to
Interpreted(k) ==
    CASE k = "summary" -> ui.summary
      [] k = "domain" -> ui.domain
      [] k = "origin" -> ui.origin
      [] k = "document_type" -> ui.document_type
      [] k = "erp_status" -> erp_status
      [] k = "transformed_data" -> ui.transformed_data

DocumentedDefault(k) ==
    CASE k = "summary" -> JStr("No summary available")
      [] k \in {"domain", "origin", "document_type"} -> JStr("Unknown")
      [] k = "erp_status" -> JStr("NOT_READY")
      [] k = "transformed_data" -> JObj(<<>>)

\* C6: when the reply is a JSON object, each of the six interpreted fields
\* is the object's value under its key if the key is present and the default
\* of that key if it is absent, whatever other keys are present or absent.
C6_FieldsPassThroughOrDefault ==
    (response.shape = "ok" /\ response.src.kind = "obj" /\ pc = "done") =>
        /\ outcome = "Presented"
        /\ \A k \in {"summary", "domain", "origin", "document_type", "erp_status", "transformed_data"} :
              Interpreted(k) = IF \E i \in 1..Len(response.src.fields) : response.src.fields[i][1] = k
                               THEN SrcValue(response.src, k)
                               ELSE DocumentedDefault(k)

C6_Witness ==
    /\ pc = "done" /\ outcome = "Presented"
    /\ {response.src.fields[i][1] : i \in 1..Len(response.src.fields)} = {"summary", "origin", "erp_status"}
    /\ ui.domain = JStr("Unknown") /\ ui.origin = JStr("US") /\ erp_status = JStr("READY")
    /\ ui.transformed_data = JObj(<<>>)

\* C7 as stated: in a run that reaches presentation erp_status is READY or
\* NOT_READY whatever the reply holds under the key, and the ready path is
\* taken exactly when it is READY.
C7_ErpStatusAlwaysBinary ==
    outcome = "Presented" =>
        /\ erp_status \in {JStr("READY"), JStr("NOT_READY")}
        /\ (ui.erp_path = "ready") <=> (erp_status = JStr("READY"))

\* C7 amended: the presentation path is binary, ready exactly when the reply
\* holds "READY" under erp_status and manual review in every other case;
\* erp_status itself is the reply's value unchanged (NOT_READY when the key is
\* absent), so it is READY or NOT_READY only when the reply's value is.
C7_ErpPathBinary ==
    outcome = "Presented" =>
        LET has == \E i \in 1..Len(response.src.fields) : response.src.fields[i][1] = "erp_status"
            given == IF has THEN SrcValue(response.src, "erp_status") ELSE JStr("NOT_READY")
        IN /\ erp_status = given
           /\ ui.erp_path \in {"ready", "review"}
           /\ (ui.erp_path = "ready") <=> (has /\ given = JStr("READY"))
           /\ "erp" \in ui.steps

C7_Witness ==
    /\ pc = "done" /\ outcome = "Presented"
    /\ erp_status = JStr("MAYBE") /\ ui.erp_path = "review"

\* texts joined by single newlines
RECURSIVE JoinLines(_)
JoinLines(texts) ==
    IF texts = <<>> THEN <<>>
    ELSE IF Len(texts) = 1 THEN texts[1]
    ELSE texts[1] \o <<"\n">> \o JoinLines(Tail(texts))

\* t without the whitespace at its end
TrailingTrimmed(t) ==
    LET keep == {i \in 1..Len(t) : t[i] \notin {" ", "\n", "\t"}}
    IN IF keep = {} THEN <<>> ELSE SubSeq(t, 1, CHOOSE i \in keep : \A j \in keep : j <= i)

\* t without the whitespace at both ends
BothEndsTrimmed(t) ==
    LET keep == {i \in 1..Len(t) : t[i] \notin {" ", "\n", "\t"}}
    IN IF keep = {} THEN <<>>
       ELSE SubSeq(t, CHOOSE i \in keep : \A j \in keep : i <= j,
                      CHOOSE i \in keep : \A j \in keep : j <= i)

YieldedTexts ==
    LET yielding == SelectSeq(uploaded_file.pages, LAMBDA p : ~p.none /\ Len(p.text) > 0)
    IN [i \in 1..Len(yielding) |-> yielding[i].text]

\* C8 as stated: for a PDF whose pages each yield non-empty text the result
\* is the page texts joined by newlines with only trailing whitespace removed.
C8_OnlyTrailingTrimmed ==
    (DeclaredPdf /\ InRun
     /\ \A i \in 1..Len(uploaded_file.pages) :
           ~uploaded_file.pages[i].none /\ uploaded_file.pages[i].text # <<>>)
        => extracted_text = TrailingTrimmed(JoinLines(YieldedTexts))

\* C8 amended: the result is the texts of the pages that yield text, in page
\* order, joined by newlines, with the whitespace at both ends removed; a page
\* that yields no text adds nothing, not even a newline.
C8_JoinedAndStripped ==
    (DeclaredPdf /\ InRun) => extracted_text = BothEndsTrimmed(JoinLines(YieldedTexts))

C8_Witness ==
    /\ DeclaredPdf /\ pc = "invoke"
    /\ Len(uploaded_file.pages) = 2
    /\ uploaded_file.pages[1] = TextPage(<<" ">>)
    /\ uploaded_file.pages[2] = TextPage(<<"a">>)
    /\ extracted_text = <<"a">>

ImageRecord == json_loads(extracted_text)

\* C9 as stated: the text extracted from an image is a record with exactly
\* the four keys format, mode, width and height.
C9_FourKeys ==
    (DeclaredImage /\ ~DeclaredPdf /\ pc \in {"check", "invoke"}) =>
        /\ ImageRecord.ok
        /\ {ImageRecord.val.fields[i][1] : i \in 1..Len(ImageRecord.val.fields)}
              = {"format", "mode", "width", "height"}

\* C9 amended: the text extracted from an image is a record with exactly the
\* five keys document_type, format, mode, width and height; document_type is
\* the constant "Image" and the other four are the image's container metadata;
\* the text is never empty, it is what the prompt embeds, and an image run
\* never ends in the empty-extraction error.
C9_FiveKeys ==
    /\ (DeclaredImage /\ ~DeclaredPdf /\ pc \in {"check", "invoke"}) =>
          /\ ImageRecord.ok /\ ImageRecord.val.kind = "obj"
          /\ {ImageRecord.val.fields[i][1] : i \in 1..Len(ImageRecord.val.fields)}
                = {"document_type", "format", "mode", "width", "height"}
          /\ SrcValue(ImageRecord.val, "document_type") = JStr("Image")
          /\ SrcValue(ImageRecord.val, "format") = JStr(uploaded_file.image.format)
          /\ SrcValue(ImageRecord.val, "mode") = JStr(uploaded_file.image.mode)
          /\ SrcValue(ImageRecord.val, "width") = JNum(ToString(uploaded_file.image.width))
          /\ SrcValue(ImageRecord.val, "height") = JNum(ToString(uploaded_file.image.height))
    /\ (DeclaredImage /\ ~DeclaredPdf /\ InRun) =>
          /\ extracted_text # <<>>
          /\ outcome # "EmptyExtraction"
          /\ pc # "check" => /\ "build_prompt" \in called
                             /\ prompt = <<PromptHead>> \o extracted_text \o <<PromptTail>>

C9_Witness ==
    /\ DeclaredImage /\ pc = "present"
    /\ uploaded_file.image.width = 1 /\ uploaded_file.image.height = 2
    /\ uploaded_file.image.pixels = "black"
    /\ Len(requests) = 1

\* C10 as stated: a finished run has one of the five outcomes, whatever text
\* the endpoint replied.
C10_FiveOutcomes ==
    pc = "done" =>
        outcome \in {"Presented", "UnsupportedMediaType", "EmptyExtraction",
                     "InvocationFailure", "MalformedResponse"}

====
